---- MODULE Spec2Model ----
(***************************************************************************)
(* pywebcopy: the asset mirroring engine of core.py and elements.py.       *)
(*                                                                         *)
(* Every resource is a thread (elements.py _FileMixin) that runs           *)
(* download_file or LinkTag.run; the main thread starts the top-level      *)
(* resources, may call new_file, and ends with zip_project.  The steps of  *)
(* one thread are interleaved between its accesses of shared state: the    *)
(* file system, config['download_size'] and the table of threads.          *)
(***************************************************************************)
EXTENDS Integers, Sequences, FiniteSets, TLC

\* The bound of the model: the units of work of one run, which are the
\* resource threads started and the calls of new_file.
MaxWork == 2

\* The bound of the threads of one run, the children that stylesheets start
\* included.
MaxThreads == 3

VARIABLES
    thr,            \* the resource threads started so far, in order of start
    fs,             \* file path -> bytes of the file, or Absent
    dirMade,        \* the directory that holds the mirrored files exists
    download_size,  \* config['download_size']
    over_write,     \* config['over_write']
    mpc,            \* where the main thread is
    nf,             \* locals of the main thread's call of new_file
    nfCalls,        \* calls of new_file made so far
    snapshot,       \* zip_project: the list enumerate() returned
    archive,        \* zip_project: the files added to the zip archive
    allowed,        \* config['allowed_file_ext']
    cache,          \* the lru_cache of is_allowed, least recently used first
    answer          \* the last call of is_allowed and what it returned

vars == <<thr, fs, dirMade, download_size, over_write, mpc, nf, nfCalls, snapshot, archive,
          allowed, cache, answer>>

-----------------------------------------------------------------------------
\* URLs, references and paths.

None == [none |-> TRUE]
Absent == [exists |-> FALSE]

\* An absolute URL http://host/<stem><ext><query>.
Url(stem, ext, query) == [scheme |-> "http", stem |-> stem, ext |-> ext, query |-> query]

\* A reference matched inside a stylesheet by CSS_URLS_RE (syn "url") or by
\* CSS_IMPORTS_RE (syn "import"): a relative URL, or a data: URI.
Ref(syn, stem, ext, query) ==
    [syn |-> syn, scheme |-> "", stem |-> stem, ext |-> ext, query |-> query]

DataUri == [syn |-> "url", scheme |-> "data", stem |-> "", ext |-> "", query |-> ""]

StyleUrl == Url("style", ".css", "")
IconUrl == Url("icon", ".png", "")
BaseUrl == Url("base", ".css", "?v=1")
FavUrl == Url("favicon", ".ico", "")
PageUrl == Url("page", ".html", "")
ThemeUrl == Url("theme", ".css", "")
LoopUrl == Url("loop", ".css", "")
LogoUrl == Url("logo", "", "")
SetupUrl == Url("setup", ".exe", "")

URLs == {StyleUrl, IconUrl, BaseUrl, FavUrl, PageUrl, ThemeUrl, LoopUrl, LogoUrl, SetupUrl}

\* The body served at a URL, as the sequence of the references in it; only
\* the stylesheets hold any.  theme.css refers to a file whose name begins
\* with the letters data, and loop.css imports itself.
Body(u) ==
    CASE u = StyleUrl -> <<Ref("import", "base", ".css", "?v=1"), DataUri>>
      [] u = ThemeUrl -> <<Ref("url", "dataset", ".png", ""),
                           Ref("import", "base", ".css", "?v=1"),
                           Ref("url", "icon", ".png", "")>>
      [] u = LoopUrl -> <<Ref("import", "loop", ".css", "")>>
      [] OTHER -> <<>>

\* The Content-Length header served with a URL.
ContentLength(u) == IF u = IconUrl THEN 2 ELSE 1

\* Python's url[:4] on the text of a reference.
First4(r) ==
    IF r.scheme # "" THEN r.scheme
    ELSE CASE r.stem = "dataset" -> "data"
           [] r.stem = "style" -> "styl"
           [] r.stem = "favicon" -> "favi"
           [] r.stem = "theme" -> "them"
           [] r.stem = "setup" -> "setu"
           [] OTHER -> r.stem

\* str.endswith('.css') on the text of a reference or of a file name.
EndsWithCss(r) == IF r.query # "" THEN FALSE ELSE r.ext = ".css"

\* os.path.splitext(text)[1] of a URL: the text after the last dot of the last
\* path segment, the query string included.
SplitExtUrl(u) == IF u.ext = "" THEN "" ELSE u.ext \o u.query

\* URLTransformer(url, base_url, base_path): a relative reference resolved
\* against the URL of the referencing document.
Resolve(r, base) ==
    [scheme |-> IF r.scheme = "" THEN base.scheme ELSE r.scheme,
     stem |-> r.stem, ext |-> r.ext, query |-> r.query]

\* URLTransformer.file_path: the local file of a URL, the query string hashed
\* into the file name and the extension kept.
FilePath(u) == [name |-> u.stem \o u.query, ext |-> u.ext]

\* os.path.splitext(file_path)[1]
SplitExtPath(p) == p.ext

\* URLTransformer.file_name.endswith('.css')
FileNameEndsWithCss(u) == FilePath(u).ext = ".css"

Paths == {FilePath(u) : u \in URLs}

\* relate(child.file_path, parent.file_path): all files are in one directory.
Relate(child, parent) == [rel |-> child]

\* str.strip().lower() on an extension.
Lower(e) ==
    CASE e = ".CSS" -> ".css"
      [] e = ".PNG" -> ".png"
      [] OTHER -> e

\* config['allowed_file_ext'] as the configuration sets it.
allowed_file_ext == {".html", ".css", ".js", ".png", ".ico"}

\* The body of core.is_allowed, evaluated against an allow-list.
IsAllowedBody(ext, list) == ext # "" /\ Lower(ext) \in list

\* core.is_allowed during a run of mirroring, in which nothing sets
\* config['allowed_file_ext']: the memoized answers are those of the body.
is_allowed(ext) == IsAllowedBody(ext, allowed_file_ext)

-----------------------------------------------------------------------------
\* core.get and the responses it returns.

\* What SESSION.get does: a 2xx response, a response with an error status, or
\* one of the exceptions of requests.  A connect timeout is a ConnectionError;
\* ReadTimeout is a Timeout and no ConnectionError.
Outcomes == {"ok", "status", "HTTPError", "ConnectionError", "ReadTimeout"}

RealResp == [raised |-> FALSE, ok |-> TRUE, is_dummy |-> FALSE]
ErrorResp == [raised |-> FALSE, ok |-> FALSE, is_dummy |-> FALSE]
Raised == [raised |-> TRUE, ok |-> FALSE, is_dummy |-> FALSE]

\* core._dummy_resp
DummyText == "This File could not be downloaded"
dummy_resp == [raised |-> FALSE, ok |-> TRUE, is_dummy |-> TRUE]

\* The except clauses of get: what get returns, or Raised when the exception
\* of SESSION.get leaves get.
GetResult(outcome) ==
    CASE outcome = "ok" -> RealResp
      [] outcome = "status" -> ErrorResp
      [] outcome = "HTTPError" -> dummy_resp
      [] outcome = "ConnectionError" -> dummy_resp
      [] OTHER -> Raised

\* Whether the statement after SESSION.get, the update of download_size, runs.
Counted(outcome) == outcome \in {"ok", "status"}

\* req.content / req.raw of the response get returned for url u.
RespBytes(u, outcome) ==
    IF GetResult(outcome).is_dummy THEN <<[text |-> DummyText]>>
    ELSE IF Body(u) = <<>> THEN <<[raw |-> u]>> ELSE Body(u)

\* core._watermark(file_path): the comment appended to the file.
NoMark == [style |-> "none"]
watermark(arg_ext, arg) ==
    IF Lower(arg_ext) \in {".html", ".htm", ".xhtml", ".aspx", ".asp", ".php"}
    THEN [style |-> "markup", path |-> arg]
    ELSE IF Lower(arg_ext) \in {".css", ".js", ".xml"}
    THEN [style |-> "block", path |-> arg]
    ELSE NoMark

File(bytes, mark) == [exists |-> TRUE, bytes |-> bytes, mark |-> mark]

\* os.path.exists(path)
Exists(path) == fs[path].exists

-----------------------------------------------------------------------------
\* The resource threads (elements.py).

Kinds == {"TagBase", "LinkTag", "AnchorTag", "ScriptTag", "ImgTag"}

\* The default_fileext each class sets; TagBase and LinkTag set none.
default_fileext(kind) ==
    CASE kind = "AnchorTag" -> "html"
      [] kind = "ScriptTag" -> "js"
      [] kind = "ImgTag" -> "jpg"
      [] OTHER -> ""

\* mimetypes.guess_all_extensions of the Content-Type served with a URL:
\* logo is served as image/png, setup.exe as application/x-msdownload.
guess_all_extensions(u) ==
    CASE u = LogoUrl \/ u.ext = ".png" -> <<".png">>
      [] u = SetupUrl -> <<".exe", ".dll">>
      [] OTHER -> <<>>

Threads == 1..Len(thr)

\* The units of work so far.
Work == Len(thr) + nfCalls

Alive(t) == thr[t].pc # "done"

\* Where run() begins when AnchorTag does not override it: every class but
\* LinkTag runs FileMixin.run.
FirstPcInherited(kind, u) ==
    IF kind = "LinkTag" /\ FileNameEndsWithCss(u) THEN "ln_get" ELSE "dl_check"

\* Where run() of a started thread begins.
FirstPc(kind, u) ==
    IF kind = "AnchorTag" THEN "anchor"
    ELSE IF kind = "LinkTag" /\ FileNameEndsWithCss(u) THEN "ln_get"
    ELSE "dl_check"

\* _FileMixin.__init__ followed by Thread.start().
NewThread(kind, u, parent) ==
    [kind |-> kind, url |-> u, parent |-> parent, pc |-> FirstPc(kind, u),
     existed |-> FALSE, net |-> "none", old |-> 0,
     contents |-> <<>>, idx |-> 0, files |-> 0,
     nreq |-> 0, wrote |-> 0, result |-> "none"]

\* The thread's run() has ended with the given result.
Ended(r, result) ==
    [r EXCEPT !.pc = "done", !.result = result, !.old = 0, !.contents = <<>>, !.idx = 0]

\* download_file has returned: LinkTag.run goes on to its own request,
\* FileMixin.run ends.
AfterDownload(r, result) ==
    IF r.kind = "LinkTag" THEN [r EXCEPT !.pc = "ln_get", !.result = result]
    ELSE Ended(r, result)

\* AnchorTag.run, which save_file is bound to as well; download_file and
\* write_file of the class return at once in the same way.
AnchorRun(t) ==
    /\ thr[t].pc = "anchor"
    /\ thr' = [thr EXCEPT ![t] = Ended(@, "none")]
    /\ UNCHANGED <<fs, dirMade, download_size, over_write, mpc, nf, nfCalls, snapshot, archive, allowed, cache, answer>>

\* download_file with its test of the existing file left out.
SkipExistingNever(path) == FALSE

\* The test of download_file that ends it when the file is there and
\* over_write is off.
SkipExisting(path) == Exists(path) /\ ~over_write

\* download_file up to its request: the test of the existing file, and
\* os.makedirs, which may fail with an OSError that nothing catches.
DownloadCheck(t) ==
    /\ thr[t].pc = "dl_check"
    /\ LET r == thr[t]
           path == FilePath(r.url)
           seen == [r EXCEPT !.existed = Exists(path)]
       IN  IF SkipExisting(path)
           THEN /\ thr' = [thr EXCEPT ![t] = AfterDownload(seen, "skipped")]
                /\ UNCHANGED dirMade
           ELSE IF Exists(path)
           THEN /\ thr' = [thr EXCEPT ![t] = [seen EXCEPT !.pc = "dl_get"]]
                /\ UNCHANGED dirMade
           ELSE \E made \in BOOLEAN :
                  IF made \/ dirMade
                  THEN /\ dirMade' = TRUE
                       /\ thr' = [thr EXCEPT ![t] = [seen EXCEPT !.pc = "dl_get"]]
                  ELSE /\ UNCHANGED dirMade
                       /\ thr' = [thr EXCEPT ![t] = Ended(seen, "raised_makedirs")]
    /\ UNCHANGED <<fs, download_size, over_write, mpc, nf, nfCalls, snapshot, archive, allowed, cache, answer>>

\* Whether a piece of the contents is a reference one of the two regular
\* expressions matches.
IsRef(tok) == "scheme" \in DOMAIN tok

\* The elements of a set of positions in increasing order.
RECURSIVE Ascending(_)
Ascending(S) ==
    IF S = {} THEN <<>>
    ELSE LET m == CHOOSE x \in S : \A y \in S : x <= y
         IN  <<m>> \o Ascending(S \ {m})

\* The positions repl is called for: CSS_URLS_RE.sub goes over the contents
\* first, CSS_IMPORTS_RE.sub second.
ScanOrder(body) ==
    Ascending({i \in 1..Len(body) : IsRef(body[i]) /\ body[i].syn = "url"})
    \o Ascending({i \in 1..Len(body) : IsRef(body[i]) /\ body[i].syn = "import"})

\* LinkTag.run at the k-th call of repl, or past the last at write_file.
Scan(r, k) ==
    IF k > Len(ScanOrder(RespBytes(r.url, r.net)))
    THEN [r EXCEPT !.pc = "wf_check", !.idx = 0]
    ELSE [r EXCEPT !.pc = "ln_scan", !.idx = k]

\* The thread after get has returned resp for the outcome of its request.
AfterGet(r, outcome) ==
    IF r.pc \in {"dl_get", "dl_add"} THEN [r EXCEPT !.pc = "dl_fin"]
    ELSE IF ~GetResult(outcome).ok THEN Ended(r, "fetch_failed")
    ELSE Scan([r EXCEPT !.contents = RespBytes(r.url, outcome)], 1)

\* get: SESSION.get returns or raises; when it returns, the left-hand side of
\* config['download_size'] += ... is read.
SessionGet(t) ==
    /\ thr[t].pc \in {"dl_get", "ln_get"}
    /\ \E outcome \in Outcomes :
         LET r == [thr[t] EXCEPT !.net = outcome, !.nreq = @ + 1]
         IN  thr' = [thr EXCEPT ![t] =
                 IF GetResult(outcome).raised THEN Ended(r, "raised_get")
                 ELSE IF Counted(outcome)
                 THEN [r EXCEPT !.old = download_size,
                                !.pc = IF r.pc = "dl_get" THEN "dl_add" ELSE "ln_add"]
                 ELSE AfterGet(r, outcome)]
    /\ UNCHANGED <<fs, dirMade, download_size, over_write, mpc, nf, nfCalls, snapshot, archive, allowed, cache, answer>>

\* get: the sum is stored into config['download_size'] and get returns.
AddSize(t) ==
    /\ thr[t].pc \in {"dl_add", "ln_add"}
    /\ download_size' = thr[t].old + ContentLength(thr[t].url)
    /\ thr' = [thr EXCEPT ![t] = AfterGet([@ EXCEPT !.old = 0], @.net)]
    /\ UNCHANGED <<fs, dirMade, over_write, mpc, nf, nfCalls, snapshot, archive, allowed, cache, answer>>

\* The list download_file guesses from the Content-Type header of the
\* response; the placeholder response has no headers.
GuessedExts(u, outcome) ==
    IF GetResult(outcome).is_dummy THEN <<>> ELSE guess_all_extensions(u)

\* download_file's test of the extension: "yes" when the extension of the
\* file, or one guessed from the content type, is allowed; "raise" for the
\* call of file_exts.extends, which no list has.
ExtAccepted(kind, u, outcome) ==
    IF is_allowed(SplitExtPath(FilePath(u))) THEN "yes"
    ELSE IF default_fileext(kind) # "" THEN "raise"
    ELSE IF \E i \in DOMAIN GuessedExts(u, outcome) : is_allowed(GuessedExts(u, outcome)[i])
    THEN "yes"
    ELSE "no"

\* The bytes download_file writes: the raw response and the watermark of the url.
DownloadedFile(u, outcome) == File(RespBytes(u, outcome), watermark(SplitExtUrl(u), u))

\* download_file after get has returned.
DownloadFinish(t) ==
    /\ thr[t].pc = "dl_fin"
    /\ LET r == thr[t]
           path == FilePath(r.url)
       IN  IF ~GetResult(r.net).ok
           THEN /\ thr' = [thr EXCEPT ![t] = AfterDownload(r, "fetch_failed")]
                /\ UNCHANGED fs
           ELSE IF ExtAccepted(r.kind, r.url, r.net) = "raise"
           THEN /\ thr' = [thr EXCEPT ![t] = Ended(r, "raised_extends")]
                /\ UNCHANGED fs
           ELSE IF ExtAccepted(r.kind, r.url, r.net) = "no"
           THEN /\ thr' = [thr EXCEPT ![t] = AfterDownload(r, "not_allowed")]
                /\ UNCHANGED fs
           ELSE \E opened \in BOOLEAN :
                  IF opened /\ dirMade
                  THEN /\ fs' = [fs EXCEPT ![path] = DownloadedFile(r.url, r.net)]
                       /\ thr' = [thr EXCEPT ![t] =
                              AfterDownload([r EXCEPT !.wrote = @ + 1], "written")]
                  ELSE /\ UNCHANGED fs
                       /\ thr' = [thr EXCEPT ![t] = AfterDownload(r, "write_error")]
    /\ UNCHANGED <<dirMade, download_size, over_write, mpc, nf, nfCalls, snapshot, archive, allowed, cache, answer>>

\* The class repl makes the child of: LinkTag when the reference ends in .css.
ChildKind(tok) == IF EndsWithCss(tok) THEN "LinkTag" ELSE "TagBase"

\* What repl returns for a data: reference: group(1) of the match.
Group1(tok) == [group1 |-> tok]

\* What repl returns for any other reference: url(<relative path>).
Replacement(child, parent) == Relate(FilePath(child), FilePath(parent))

\* LinkTag.repl, called by re.sub for one match: a data: reference is returned
\* as it is; for any other a child is made and started, and repl returns at once.
Repl(t) ==
    /\ thr[t].pc = "ln_scan"
    /\ LET r == thr[t]
           i == ScanOrder(RespBytes(r.url, r.net))[r.idx]
           tok == r.contents[i]
       IN  IF First4(tok) = "data"
           THEN thr' = [thr EXCEPT ![t] =
                    Scan([r EXCEPT !.contents[i] = Group1(tok)], r.idx + 1)]
           ELSE /\ Len(thr) < MaxThreads
                /\ LET child == Resolve(tok, r.url)
                       parent == Scan([r EXCEPT !.contents[i] = Replacement(child, r.url),
                                                !.files = @ + 1], r.idx + 1)
                   IN  thr' = Append([thr EXCEPT ![t] = parent],
                                     NewThread(ChildKind(tok), child, t))
    /\ UNCHANGED <<fs, dirMade, download_size, over_write, mpc, nf, nfCalls, snapshot, archive, allowed, cache, answer>>

\* write_file giving up, too, when the fetch of a child of the stylesheet has
\* failed.
WriteSkipExistingOrChildFailed(path) ==
    \/ Exists(path) /\ ~over_write
    \/ \E c \in Threads :
         /\ thr[c].parent # 0
         /\ FilePath(thr[thr[c].parent].url) = path
         /\ thr[c].net \notin {"none", "ok"}

\* The test of write_file that ends it when the file is there and over_write
\* is off.
WriteSkipExisting(path) == Exists(path) /\ ~over_write

\* write_file up to the opening of the file.
WriteFileCheck(t) ==
    /\ thr[t].pc = "wf_check"
    /\ LET r == thr[t]
           path == FilePath(r.url)
           seen == [r EXCEPT !.existed = Exists(path)]
           checked == IF is_allowed(SplitExtPath(path))
                      THEN [seen EXCEPT !.pc = "wf_write"]
                      ELSE Ended(seen, "not_allowed")
       IN  IF WriteSkipExisting(path)
           THEN /\ thr' = [thr EXCEPT ![t] = Ended(seen, "skipped")]
                /\ UNCHANGED dirMade
           ELSE IF Exists(path)
           THEN /\ thr' = [thr EXCEPT ![t] = checked]
                /\ UNCHANGED dirMade
           ELSE \E made \in BOOLEAN :
                  IF made \/ dirMade
                  THEN /\ dirMade' = TRUE
                       /\ thr' = [thr EXCEPT ![t] = checked]
                  ELSE /\ UNCHANGED dirMade
                       /\ thr' = [thr EXCEPT ![t] = Ended(seen, "raised_makedirs")]
    /\ UNCHANGED <<fs, download_size, over_write, mpc, nf, nfCalls, snapshot, archive, allowed, cache, answer>>

\* The bytes write_file writes: the rewritten contents and the watermark of the url.
RewrittenFile(u, contents) == File(contents, watermark(SplitExtUrl(u), u))

\* write_file: the file is opened and written.
WriteFileWrite(t) ==
    /\ thr[t].pc = "wf_write"
    /\ LET r == thr[t]
           path == FilePath(r.url)
       IN  \E opened \in BOOLEAN :
             IF opened /\ dirMade
             THEN /\ fs' = [fs EXCEPT ![path] = RewrittenFile(r.url, r.contents)]
                  /\ thr' = [thr EXCEPT ![t] = Ended([r EXCEPT !.wrote = @ + 1], "written")]
             ELSE /\ UNCHANGED fs
                  /\ thr' = [thr EXCEPT ![t] = Ended(r, "write_error")]
    /\ UNCHANGED <<dirMade, download_size, over_write, mpc, nf, nfCalls, snapshot, archive, allowed, cache, answer>>

-----------------------------------------------------------------------------
\* The main thread: the top-level resources, new_file and zip_project.

\* The resources the page handlers make for the tags of the root page.
Roots ==
    {<<"LinkTag", StyleUrl>>, <<"TagBase", IconUrl>>,
     <<"AnchorTag", PageUrl>>}

\* A top-level resource is made and started.
Start(kind, u) ==
    /\ mpc = "idle"
    /\ Work < MaxWork
    /\ thr' = Append(thr, NewThread(kind, u, 0))
    /\ UNCHANGED <<fs, dirMade, download_size, over_write, mpc, nf, nfCalls, snapshot, archive, allowed, cache, answer>>

GivenBytes == <<[text |-> "given"]>>
NoBytes == <<>>

\* The arguments new_file is called with: (location, content_url, content).
NewFileArgs ==
    {<<FilePath(IconUrl), IconUrl, NoBytes>>,
     <<FilePath(PageUrl), Url("page", "", ""), NoBytes>>,
     <<FilePath(PageUrl), PageUrl, GivenBytes>>,
     <<FilePath(PageUrl), None, GivenBytes>>}

NfIdle ==
    [location |-> None, content_url |-> None, content |-> NoBytes,
     net |-> "none", old |-> 0, dirSeen |-> FALSE, result |-> "none",
     before |-> Absent]

\* new_file has returned (a location, or "None") or raised; the arguments of
\* the call, and the file that was at the location when it was made, stay on
\* record.
NfReturn(r, result) ==
    [NfIdle EXCEPT !.result = result, !.location = r.location,
                   !.content_url = r.content_url, !.content = r.content,
                   !.before = r.before]

\* The test of new_file that returns the location when the file is there and
\* over_write is off.
NewFileSkipExisting(path) == Exists(path) /\ ~over_write

\* new_file up to its request: the assertions, the extension of the location,
\* and the existing file, which is removed when over_write is on.
NewFileCall(location, content_url, content) ==
    /\ mpc = "idle"
    /\ Work < MaxWork
    /\ nfCalls' = nfCalls + 1
    /\ LET r == [NfIdle EXCEPT !.location = location, !.content_url = content_url,
                               !.content = content, !.before = fs[location]]
       IN  IF content_url = None \/ location.ext = ""
           THEN /\ nf' = NfReturn(r, "raised")
                /\ UNCHANGED <<fs, mpc>>
           ELSE IF ~is_allowed(Lower(location.ext))
           THEN /\ nf' = NfReturn(r, "None")
                /\ UNCHANGED <<fs, mpc>>
           ELSE IF NewFileSkipExisting(location)
           THEN /\ nf' = NfReturn(r, "location")
                /\ UNCHANGED <<fs, mpc>>
           ELSE /\ nf' = r
                /\ fs' = [fs EXCEPT ![location] = Absent]
                /\ mpc' = IF content = NoBytes THEN "nf_get" ELSE "nf_mkdir"
    /\ UNCHANGED <<thr, dirMade, download_size, over_write, snapshot, archive, allowed, cache, answer>>

\* new_file after get has returned resp.
NfAfterGet(r, outcome) ==
    IF GetResult(outcome).ok THEN r ELSE NfReturn(r, "None")

\* new_file's call of get: SESSION.get returns or raises.
NfGet ==
    /\ mpc = "nf_get"
    /\ \E outcome \in Outcomes :
         LET r == [nf EXCEPT !.net = outcome]
         IN  IF GetResult(outcome).raised
             THEN nf' = NfReturn(r, "raised") /\ mpc' = "idle"
             ELSE IF Counted(outcome)
             THEN nf' = [r EXCEPT !.old = download_size] /\ mpc' = "nf_add"
             ELSE nf' = NfAfterGet(r, outcome) /\ mpc' = "nf_mkdir"
    /\ UNCHANGED <<thr, fs, dirMade, download_size, over_write, nfCalls, snapshot, archive, allowed, cache, answer>>

\* new_file's call of get: the sum is stored into config['download_size'].
NfAddSize ==
    /\ mpc = "nf_add"
    /\ download_size' = nf.old + ContentLength(nf.content_url)
    /\ nf' = NfAfterGet([nf EXCEPT !.old = 0], nf.net)
    /\ mpc' = IF GetResult(nf.net).ok THEN "nf_mkdir" ELSE "idle"
    /\ UNCHANGED <<thr, fs, dirMade, over_write, nfCalls, snapshot, archive, allowed, cache, answer>>

\* new_file: os.path.exists(os.path.dirname(location))
NfMkdir ==
    /\ mpc = "nf_mkdir"
    /\ nf' = [nf EXCEPT !.dirSeen = dirMade]
    /\ mpc' = "nf_write"
    /\ UNCHANGED <<thr, fs, dirMade, download_size, over_write, nfCalls, snapshot, archive, allowed, cache, answer>>

\* The bytes new_file writes: the content, given or fetched, and the watermark
\* of content_url or location.
NewFileBytes(r) ==
    File(IF r.net = "none" THEN r.content ELSE RespBytes(r.content_url, r.net),
         IF r.content_url = None
         THEN watermark(SplitExtPath(r.location), r.location)
         ELSE watermark(SplitExtUrl(r.content_url), r.content_url))

\* new_file: os.makedirs, whose OSError returns None, and the write.
NfWrite ==
    /\ mpc = "nf_write"
    /\ mpc' = "idle"
    /\ \E made \in BOOLEAN, opened \in BOOLEAN :
         IF ~nf.dirSeen /\ (dirMade \/ ~made)
         THEN /\ nf' = NfReturn(nf, "None")
              /\ UNCHANGED <<fs, dirMade>>
         ELSE IF opened
         THEN /\ dirMade' = TRUE
              /\ fs' = [fs EXCEPT ![nf.location] = NewFileBytes(nf)]
              /\ nf' = NfReturn(nf, "location")
         ELSE /\ dirMade' = TRUE
              /\ UNCHANGED fs
              /\ nf' = NfReturn(nf, "None")
    /\ UNCHANGED <<thr, download_size, over_write, nfCalls, snapshot, archive, allowed, cache, answer>>

\* zip_project: threading.enumerate() lists the threads alive at this moment.
ZipEnumerate ==
    /\ mpc = "idle"
    /\ snapshot' = {t \in Threads : Alive(t)}
    /\ mpc' = "zip_join"
    /\ UNCHANGED <<thr, fs, dirMade, download_size, over_write, nf, nfCalls, archive, allowed, cache, answer>>

\* zip_project: the loop of joins ends when every listed thread has ended.
ZipJoined ==
    /\ mpc = "zip_join"
    /\ \A t \in snapshot : ~Alive(t)
    /\ mpc' = "zip_archive"
    /\ UNCHANGED <<thr, fs, dirMade, download_size, over_write, nf, nfCalls, snapshot, archive, allowed, cache, answer>>

\* zip_project: the files are added to the archive, and the project folder is
\* removed when config['delete_project_folder'] is set.
ZipArchive ==
    /\ mpc = "zip_archive"
    /\ archive' = {p \in Paths : Exists(p)}
    /\ mpc' = "zipped"
    /\ \E delete_project_folder \in BOOLEAN :
         IF delete_project_folder
         THEN fs' = [p \in Paths |-> Absent] /\ dirMade' = FALSE
         ELSE UNCHANGED <<fs, dirMade>>
    /\ UNCHANGED <<thr, download_size, over_write, nf, nfCalls, snapshot, allowed, cache, answer>>

-----------------------------------------------------------------------------
\* The extension policy: is_allowed under functools.lru_cache, and the
\* allow-list it reads, which is an entry of the mutable config.

\* @lru_cache(maxsize=100)
maxsize == 100

\* The extensions is_allowed is called with.
Exts == {"", ".css", ".CSS", ".exe"}

\* The values config['allowed_file_ext'] is set to.
AllowLists ==
    {allowed_file_ext, allowed_file_ext \cup {".exe"}, allowed_file_ext \ {".css"}}

NoAnswer == [called |-> FALSE, ext |-> "", ret |-> FALSE]

\* The position of the entry of the cache for a key, or 0.
CacheIndex(c, ext) ==
    IF \E i \in DOMAIN c : c[i].key = ext
    THEN CHOOSE i \in DOMAIN c : c[i].key = ext
    ELSE 0

\* The cache without its i-th entry.
CacheWithout(c, i) == SubSeq(c, 1, i - 1) \o SubSeq(c, i + 1, Len(c))

\* The cache after a miss: the new entry is the most recently used, and the
\* least recently used one is dropped when the cache is over its size.
CacheStore(c, ext, value) ==
    LET c2 == Append(c, [key |-> ext, value |-> value])
    IN  IF Len(c2) > maxsize THEN Tail(c2) ELSE c2

\* config['allowed_file_ext'] = list
SetAllowedFileExt(list) ==
    /\ list # allowed
    /\ allowed' = list
    /\ UNCHANGED <<thr, fs, dirMade, download_size, over_write, mpc, nf, nfCalls,
                   snapshot, archive, cache, answer>>

\* A call of is_allowed(ext): a hit returns the cached value, a miss runs the
\* body against the allow-list of the moment and caches what it returns.
IsAllowedCall(ext) ==
    /\ LET i == CacheIndex(cache, ext)
       IN  IF i # 0
           THEN /\ answer' = [called |-> TRUE, ext |-> ext, ret |-> cache[i].value]
                /\ cache' = Append(CacheWithout(cache, i), cache[i])
           ELSE /\ answer' = [called |-> TRUE, ext |-> ext, ret |-> IsAllowedBody(ext, allowed)]
                /\ cache' = CacheStore(cache, ext, IsAllowedBody(ext, allowed))
    /\ UNCHANGED <<thr, fs, dirMade, download_size, over_write, mpc, nf, nfCalls,
                   snapshot, archive, allowed>>

-----------------------------------------------------------------------------

\* The bytes a file of an earlier mirror of the site holds.
OldFile == File(<<[text |-> "old"]>>, NoMark)

\* The project folder is new, or holds an earlier mirror of the site.
Init ==
    /\ thr = <<>>
    /\ \E mirrored \in BOOLEAN :
         /\ fs = [p \in Paths |-> IF mirrored THEN OldFile ELSE Absent]
         /\ dirMade = mirrored
    /\ download_size = 0
    /\ over_write \in BOOLEAN
    /\ mpc = "idle"
    /\ nf = NfIdle
    /\ nfCalls = 0
    /\ snapshot = {}
    /\ archive = {}
    /\ allowed = allowed_file_ext
    /\ cache = <<>>
    /\ answer = NoAnswer

\* The resource threads alone.
Mirror ==
    \/ \E root \in Roots : Start(root[1], root[2])
    \/ \E t \in Threads : AnchorRun(t)
    \/ \E t \in Threads : DownloadCheck(t)
    \/ \E t \in Threads : SessionGet(t)
    \/ \E t \in Threads : AddSize(t)
    \/ \E t \in Threads : DownloadFinish(t)
    \/ \E t \in Threads : Repl(t)
    \/ \E t \in Threads : WriteFileCheck(t)
    \/ \E t \in Threads : WriteFileWrite(t)

SpecMirror == Init /\ [][Mirror]_vars

\* A LinkTag of a file that is no stylesheet, such as a favicon.
LinkRoots == {<<"LinkTag", FavUrl>>}

Link ==
    \/ \E root \in LinkRoots : Start(root[1], root[2])
    \/ \E t \in Threads : DownloadCheck(t)
    \/ \E t \in Threads : SessionGet(t)
    \/ \E t \in Threads : AddSize(t)
    \/ \E t \in Threads : DownloadFinish(t)
    \/ \E t \in Threads : WriteFileCheck(t)
    \/ \E t \in Threads : WriteFileWrite(t)

SpecLink == Init /\ [][Link]_vars

Files ==
    \/ Mirror
    \/ \E args \in NewFileArgs : NewFileCall(args[1], args[2], args[3])
    \/ NfGet
    \/ NfAddSize
    \/ NfMkdir
    \/ NfWrite

SpecFiles == Init /\ [][Files]_vars

\* The three writers of files, download_file, write_file and new_file, with
\* over_write off: a resource that download_file writes, and a LinkTag that
\* goes through download_file and write_file both.
KeepRoots == {<<"TagBase", IconUrl>>, <<"LinkTag", FavUrl>>}

Keep ==
    \/ \E root \in KeepRoots : Start(root[1], root[2])
    \/ \E t \in Threads : DownloadCheck(t)
    \/ \E t \in Threads : SessionGet(t)
    \/ \E t \in Threads : AddSize(t)
    \/ \E t \in Threads : DownloadFinish(t)
    \/ \E t \in Threads : WriteFileCheck(t)
    \/ \E t \in Threads : WriteFileWrite(t)
    \/ \E args \in NewFileArgs : NewFileCall(args[1], args[2], args[3])
    \/ NfGet
    \/ NfAddSize
    \/ NfMkdir
    \/ NfWrite

InitKeep == Init /\ ~over_write

SpecKeep == InitKeep /\ [][Keep]_vars

\* A stylesheet whose body refers to two other files.
SheetRoots == {<<"LinkTag", ThemeUrl>>}

Sheet ==
    \/ \E root \in SheetRoots : Start(root[1], root[2])
    \/ \E t \in Threads : DownloadCheck(t)
    \/ \E t \in Threads : SessionGet(t)
    \/ \E t \in Threads : AddSize(t)
    \/ \E t \in Threads : DownloadFinish(t)
    \/ \E t \in Threads : Repl(t)
    \/ \E t \in Threads : WriteFileCheck(t)
    \/ \E t \in Threads : WriteFileWrite(t)

SpecSheet == Init /\ [][Sheet]_vars

\* A stylesheet that imports itself.
LoopRoots == {<<"LinkTag", LoopUrl>>}

Loop ==
    \/ \E root \in LoopRoots : Start(root[1], root[2])
    \/ \E t \in Threads : SessionGet(t)
    \/ \E t \in Threads : AddSize(t)
    \/ \E t \in Threads : Repl(t)
    \/ \E t \in Threads : WriteFileCheck(t)
    \/ \E t \in Threads : WriteFileWrite(t)

SpecLoop == Init /\ [][Loop]_vars

\* Resources whose URL has no extension, or one that is not allowed.
InferRoots ==
    {<<"TagBase", LogoUrl>>, <<"ImgTag", LogoUrl>>, <<"TagBase", SetupUrl>>}

Infer ==
    \/ \E root \in InferRoots : Start(root[1], root[2])
    \/ \E t \in Threads : DownloadCheck(t)
    \/ \E t \in Threads : SessionGet(t)
    \/ \E t \in Threads : AddSize(t)
    \/ \E t \in Threads : DownloadFinish(t)

SpecInfer == Init /\ [][Infer]_vars

\* Calls of new_file alone, nothing else touching the files.
NewFiles ==
    \/ \E args \in NewFileArgs : NewFileCall(args[1], args[2], args[3])
    \/ NfGet
    \/ NfAddSize
    \/ NfMkdir
    \/ NfWrite

SpecNewFiles == Init /\ [][NewFiles]_vars

\* The extension policy alone.
Policy ==
    \/ \E list \in AllowLists : SetAllowedFileExt(list)
    \/ \E ext \in Exts : IsAllowedCall(ext)

SpecPolicy == Init /\ [][Policy]_vars

Next ==
    \/ \E root \in Roots : Start(root[1], root[2])
    \/ \E t \in Threads : AnchorRun(t)
    \/ \E t \in Threads : DownloadCheck(t)
    \/ \E t \in Threads : SessionGet(t)
    \/ \E t \in Threads : AddSize(t)
    \/ \E t \in Threads : DownloadFinish(t)
    \/ \E t \in Threads : Repl(t)
    \/ \E t \in Threads : WriteFileCheck(t)
    \/ \E t \in Threads : WriteFileWrite(t)
    \/ \E args \in NewFileArgs : NewFileCall(args[1], args[2], args[3])
    \/ NfGet
    \/ NfAddSize
    \/ NfMkdir
    \/ NfWrite
    \/ ZipEnumerate
    \/ ZipJoined
    \/ ZipArchive

Spec == Init /\ [][Next]_vars

-----------------------------------------------------------------------------
\* The properties.

\* The pcs of a thread whose call of get has returned.
PastGet == {"dl_fin", "ln_scan", "wf_check", "wf_write"}

\* C1: get never propagates a failure: whatever SESSION.get does on a
\* transport failure (an error status, a connection error, a timeout, a read
\* timeout), get raises nothing and returns an ok response marked as
\* synthesized.
C1_GetNeverPropagates ==
    \A t \in Threads :
        /\ thr[t].result # "raised_get"
        /\ (thr[t].pc \in PastGet /\ thr[t].net \notin {"none", "ok"})
              => (GetResult(thr[t].net).ok /\ GetResult(thr[t].net).is_dummy)

\* The fetch of an ended thread failed at transport level.
FetchFailed(t) == thr[t].net \notin {"none", "ok"}

\* C2: the placeholder guarantee: a TagBase or LinkTag resource of an allowed
\* extension whose fetch failed for any transport reason, and whose file
\* system operations did not fail, has a file at its file_path when its run
\* has ended.
C2_PlaceholderGuarantee ==
    \A t \in Threads :
        (/\ thr[t].kind # "AnchorTag"
         /\ thr[t].pc = "done"
         /\ is_allowed(SplitExtPath(FilePath(thr[t].url)))
         /\ FetchFailed(t)
         /\ thr[t].result \notin {"write_error", "raised_makedirs"})
            => Exists(FilePath(thr[t].url))

\* C3: causal ordering: a stylesheet that has replaced its references and
\* written its rewritten file has no child that is still running.
C3_ChildEndsBeforeParentWrites ==
    \A c \in Threads :
        (/\ thr[c].parent # 0
         /\ thr[thr[c].parent].pc = "done"
         /\ thr[thr[c].parent].result = "written")
            => ~Alive(c)

\* C4: barrier completeness: when the joins of zip_project have returned and
\* the archive is about to be made, no resource thread is running.
C4_BarrierComplete ==
    mpc = "zip_archive" => \A t \in Threads : ~Alive(t)

\* C5: no dangling reference: when the barrier of zip_project has completed,
\* the file of every child exists that a stylesheet, now written, replaced a
\* reference by, no file system operation of the child having failed.
C5_NoDanglingReference ==
    mpc = "zip_archive" =>
        \A c \in Threads :
            (/\ thr[c].parent # 0
             /\ thr[thr[c].parent].result = "written"
             /\ thr[c].result \notin {"write_error", "raised_makedirs"})
                => Exists(FilePath(thr[c].url))

\* C6: dedup: of two resources with the same URL in one run, over_write being
\* off, one alone fetches the URL and writes the file: they do not both open
\* the file for writing.
C6_OneWriter ==
    ~over_write =>
        \A t1 \in Threads, t2 \in Threads :
            (t1 # t2 /\ thr[t1].url = thr[t2].url)
                => ~(thr[t1].wrote > 0 /\ thr[t2].wrote > 0)

\* C7: config['download_size'] never decreases.
C7_DownloadSizeMonotonic == [][download_size' >= download_size]_vars

\* The step changes the bytes of the file at path p, which exists.
Changes(p) == fs[p].exists /\ fs'[p] # fs[p]

\* The step is the write of a mirroring of path p whose test of the existing
\* file found none: a thread in download_file or write_file, or new_file.
WriteOfEarlier(p) ==
    \/ \E t \in Threads :
         /\ FilePath(thr[t].url) = p
         /\ ~thr[t].existed
         /\ thr'[t].wrote = thr[t].wrote + 1
    \/ mpc = "nf_write" /\ nf.location = p

\* C8: with over_write off, a mirroring that finds a file at its file_path
\* leaves the bytes of the file unchanged: an existing file is changed only by
\* a mirroring that began before the file was there.
C8_OverwriteOffKeepsFile ==
    [][~over_write => \A p \in Paths : Changes(p) => WriteOfEarlier(p)]_vars

\* A second mirroring of a URL has found the file of the first and has ended,
\* and the file holds what the first wrote.
C8_Witness ==
    /\ ~over_write
    /\ \E t1 \in Threads, t2 \in Threads :
         /\ t1 # t2
         /\ thr[t1].url = thr[t2].url
         /\ thr[t1].result = "written"
         /\ thr[t2].result = "skipped"
         /\ thr[t2].existed
         /\ fs[FilePath(thr[t1].url)] = DownloadedFile(thr[t1].url, thr[t1].net)

\* The file a mirroring of url u is to leave: the fetched bytes, or the
\* placeholder when the fetch failed.
ExpectedFile(u, outcome) ==
    DownloadedFile(u, IF outcome = "ok" THEN "ok" ELSE "ConnectionError")

\* C9: with over_write on, the one resource of a run over an earlier mirror,
\* once its download_file has ended without a file system failure, has
\* replaced the earlier file by its own result.
C9_OverwriteOnReplaces ==
    (/\ over_write
     /\ Len(thr) = 1
     /\ thr[1].kind = "TagBase"
     /\ thr[1].pc = "done"
     /\ thr[1].existed
     /\ thr[1].result # "write_error")
        => fs[FilePath(thr[1].url)] = ExpectedFile(thr[1].url, thr[1].net)

\* The watermark the extension of a file path calls for.
MarkOfPath(p) ==
    IF p.ext \in {".css", ".js", ".xml"} THEN "block"
    ELSE IF p.ext \in {".html", ".htm", ".xhtml", ".asp", ".aspx", ".php"} THEN "markup"
    ELSE "none"

\* C10: every file written in the run carries the watermark of the extension
\* of its file path: block comment, markup comment or none.
C10_WatermarkByFilePath ==
    \A p \in Paths :
        (fs[p].exists /\ fs[p] # OldFile) => fs[p].mark.style = MarkOfPath(p)

\* The robots.txt permission oracle, RobotsTxtParser.can_fetch: the robots.txt
\* of the host disallows icon.png.
can_fetch(u) == u # IconUrl

\* C11: get consults the permission oracle before every network request: no
\* request is issued, by a resource thread or by new_file, for a URL the
\* oracle denies.
C11_OracleBeforeRequest ==
    /\ \A t \in Threads : thr[t].nreq > 0 => can_fetch(thr[t].url)
    /\ nf.net # "none" => can_fetch(nf.content_url)

\* The children a stylesheet has started.
ChildrenOf(p) == {c \in Threads : thr[c].parent = p}

\* C12: fail-safe parent: a stylesheet whose run has ended, some child of it
\* having failed to fetch, has written its own file, unless one of its own
\* file system operations failed or its file was there already with
\* over_write off.
C12_FailSafeParent ==
    \A p \in Threads :
        (/\ thr[p].pc = "done"
         /\ \E c \in ChildrenOf(p) : FetchFailed(c)
         /\ thr[p].result \notin {"write_error", "raised_makedirs"})
            => \/ thr[p].result = "written" /\ Exists(FilePath(thr[p].url))
               \/ thr[p].result = "skipped" /\ thr[p].existed /\ ~over_write

\* A stylesheet has written its file and the fetches of both its children
\* have failed.
C12_Witness ==
    \E p \in Threads :
        /\ thr[p].result = "written"
        /\ Cardinality({c \in ChildrenOf(p) : FetchFailed(c)}) = 2

\* C13: anchor resources never fetch or write: a step of an AnchorTag thread
\* issues no request, starts no thread, and leaves the files, the directory
\* and config['download_size'] as they are.
C13_AnchorNoEffect ==
    [][\A t \in Threads :
          (thr[t].kind = "AnchorTag" /\ thr'[t] # thr[t])
              => /\ UNCHANGED <<fs, dirMade, download_size>>
                 /\ Len(thr') = Len(thr)
                 /\ thr'[t].nreq = 0
                 /\ thr'[t].wrote = 0]_vars

\* The run of an AnchorTag has ended in a folder that holds no file.
C13_Witness ==
    \E t \in Threads :
        /\ thr[t].kind = "AnchorTag"
        /\ thr[t].pc = "done"
        /\ ~Exists(FilePath(thr[t].url))
        /\ download_size = 0

\* The extensions download_file is to try for a fetched resource: those
\* guessed from the content type, and the default extension of the class.
CandidateExts(kind, u) ==
    {guess_all_extensions(u)[i] : i \in DOMAIN guess_all_extensions(u)}
    \cup (IF default_fileext(kind) = "" THEN {} ELSE {"." \o default_fileext(kind)})

\* C14: extension inference: a resource fetched with success whose file path
\* has no allowed extension ends without an uncaught error; it is written
\* when an extension guessed from the content type, or the default extension
\* of its class, is allowed, and ends with nothing written when none is.
C14_ExtensionInference ==
    \A t \in Threads :
        (/\ thr[t].kind \in {"TagBase", "ScriptTag", "ImgTag"}
         /\ thr[t].pc = "done"
         /\ thr[t].net = "ok"
         /\ ~is_allowed(SplitExtPath(FilePath(thr[t].url))))
            => /\ thr[t].result # "raised_extends"
               /\ IF \E e \in CandidateExts(thr[t].kind, thr[t].url) : is_allowed(e)
                  THEN thr[t].result \in {"written", "write_error"}
                  ELSE thr[t].result = "not_allowed" /\ thr[t].wrote = 0

\* C15: new_file called with a location of an allowed extension and bytes of
\* content, but no content_url, raises nothing: it returns the location,
\* where the file then is, or None.
C15_ContentWithoutUrl ==
    (/\ nf.result # "none"
     /\ nf.content_url = None
     /\ nf.content # NoBytes
     /\ is_allowed(nf.location.ext))
        => /\ nf.result \in {"location", "None"}
           /\ nf.result = "location" => Exists(nf.location)

\* C16: a LinkTag whose file name does not end in .css is fetched once, by
\* download_file, and never enters the part of LinkTag.run that fetches the
\* stylesheet, scans its contents and writes them.
C16_NonStylesheetFetchedOnce ==
    \A t \in Threads :
        (thr[t].kind = "LinkTag" /\ ~FileNameEndsWithCss(thr[t].url))
            => /\ thr[t].nreq <= 1
               /\ thr[t].wrote <= 1
               /\ thr[t].pc \in {"dl_check", "dl_get", "dl_add", "dl_fin", "done"}

\* C17: only data: URIs are skipped: when a stylesheet has been scanned, a
\* reference of the data: scheme stands in the contents as it was and has no
\* child, and every other reference, one that merely begins with the letters
\* data included, has one child started for it and is replaced by the
\* relative path of the child's file.
C17_OnlyDataUrisSkipped ==
    \A t \in Threads :
        (thr[t].pc \in {"wf_check", "wf_write"} /\ thr[t].net = "ok")
            => \A i \in DOMAIN Body(thr[t].url) :
                 LET tok == Body(thr[t].url)[i]
                     child == Resolve(tok, thr[t].url)
                     minted == {c \in ChildrenOf(t) : thr[c].url = child}
                 IN  IF tok.scheme = "data"
                     THEN thr[t].contents[i] = tok /\ minted = {}
                     ELSE /\ thr[t].contents[i] = Replacement(child, thr[t].url)
                          /\ Cardinality(minted) = 1

\* C18: skipped means no work: with over_write off, a resource whose file has
\* been there since before the run ends as skipped, having issued no request
\* and started no child; AnchorTag resources, which do nothing, aside.
C18_SkippedMeansNoWork ==
    \A t \in Threads :
        (/\ ~over_write
         /\ thr[t].kind # "AnchorTag"
         /\ thr[t].pc = "done"
         /\ fs[FilePath(thr[t].url)] = OldFile)
            => /\ thr[t].result = "skipped"
               /\ thr[t].nreq = 0
               /\ ChildrenOf(t) = {}

\* The threads a thread descends from: its parent, the parent of that, ...
RECURSIVE Ancestors(_)
Ancestors(t) ==
    IF thr[t].parent = 0 THEN {}
    ELSE {thr[t].parent} \cup Ancestors(thr[t].parent)

\* C19: mirroring ends on a cyclic graph of stylesheets: the threads started
\* are finitely many, which they are only when no thread is started for the
\* URL of one of its own ancestors, every such thread going on to repeat the
\* chain of references that led to it.
C19_NoUrlTwiceOnChain ==
    \A t \in Threads : \A a \in Ancestors(t) : thr[a].url # thr[t].url

\* C20: the memoized extension policy agrees with the allow-list: whatever
\* changes of config['allowed_file_ext'] and calls of is_allowed came before,
\* a call of is_allowed(ext) returns true exactly when ext is not empty and
\* its stripped, lower-cased form is in the allow-list of that moment.
C20_MemoAgreesWithAllowList ==
    [][(allowed' = allowed /\ answer'.called)
          => answer'.ret = IsAllowedBody(answer'.ext, allowed)]_vars

\* C21: a failed write does not destroy an existing file: when new_file, with
\* over_write on, has found a file at its location and has reported failure
\* by returning None (the fetch was not ok, or the directory or the file
\* could not be made), the file is there with the bytes it had.
C21_FailureKeepsExistingFile ==
    (/\ over_write
     /\ nf.result = "None"
     /\ nf.before.exists)
        => fs[nf.location] = nf.before

====
